---- MODULE Spec2Model ----
(***************************************************************************)
(* SSTable writer and reader of go-lsm (internal/sstable).                 *)
(*                                                                         *)
(* Files are sequences of bytes (0..255).  Every integer field is written  *)
(* and read in its little-endian byte form, CRC-32 (IEEE) is computed byte *)
(* by byte from its table, and the reader decodes what is on disk, so that *)
(* encoding and decoding are two separate computations.                    *)
(***************************************************************************)
EXTENDS Integers, Sequences, FiniteSets, TLC

(***************************************************************************)
(* Bounds of the model.                                                    *)
(***************************************************************************)
\* number of Write calls in one behaviour
MaxWrites == 3
\* number of Writer sessions in one directory
MaxSessions == 2
\* number of clock seconds that pass (the file name has second granularity)
MaxTime == 1
\* number of goroutines that call Get on one Reader
MaxGetters == 2
\* number of Put calls on one MemTable
MaxPuts == 3
\* number of goroutines that call one MemTable
MaxThreads == 2
\* number of entries of a block payload handed to the decoder
MaxEntries == 2

(***************************************************************************)
(* Program constants.                                                      *)
(***************************************************************************)
\* BlockSize is 4 * 1024 in the source.  The model keeps the comparison
\* size >= BlockSize of IsFull and scales the threshold down to 4 bytes so
\* that blocks of one, two and three entries, and files of several blocks,
\* are built from keys and values of a few bytes.
BlockSize == 4
FooterSize == 64
CurrentVersion == 1
NoCompression == 0
DataBlock == 0
IndexBlock == 1
\* binary.Size(BlockMetadata): uint8 + 3 * uint32 + bool
MetadataSize == 14
\* MagicNumber 0x8773537461626c65 in little-endian byte order
MagicNumber == <<101, 108, 98, 97, 116, 83, 115, 135>>

Byte == 0..255
\* Decoded integers of 2^12 and more are larger than every file of the model
\* and are all represented by this value.
Huge == 16 * 256

Min(a, b) == IF a < b THEN a ELSE b

Zeros(n) == [i \in 1..n |-> 0]

\* v := ...; F(v): the value v is computed once and named in what follows
With(v, F(_)) == F(v)

(***************************************************************************)
(* encoding/binary, little endian                                          *)
(***************************************************************************)
U8(n) == <<n % 256>>
U32LE(n) == <<n % 256, (n \div 256) % 256, (n \div 65536) % 256, (n \div 16777216) % 256>>
U64LE(n) == U32LE(n) \o <<0, 0, 0, 0>>

\* value of a little-endian field; fields of 2^12 and more saturate at Huge
DecLE(bs) ==
    IF bs[2] < 16 /\ \A i \in 3..Len(bs) : bs[i] = 0
    THEN bs[1] + 256 * bs[2]
    ELSE Huge

\* int64(x) of a uint64 field is negative when its top bit is set
NegativeI64(bs) == bs[8] >= 128

\* bytes.Compare
RECURSIVE Compare(_, _)
Compare(a, b) ==
    IF a = <<>> /\ b = <<>> THEN 0
    ELSE IF a = <<>> THEN -1
    ELSE IF b = <<>> THEN 1
    ELSE IF Head(a) < Head(b) THEN -1
    ELSE IF Head(a) > Head(b) THEN 1
    ELSE Compare(Tail(a), Tail(b))

(***************************************************************************)
(* hash/crc32 ChecksumIEEE: reflected CRC-32, polynomial 0xEDB88320,       *)
(* initial value and final xor 0xFFFFFFFF, computed from the 256-entry     *)
(* table as crc = table[byte(crc) ^ b] ^ (crc >> 8).  A 32-bit word is the *)
(* sequence of its 4 bytes, least significant first.                       *)
(***************************************************************************)
\* bits of 0xEDB88320
PolyBits == {5, 8, 9, 15, 19, 20, 21, 23, 24, 26, 27, 29, 30, 31}

Bit(n, i) == (n \div (2 ^ i)) % 2 = 1

BitVal(b, i) == IF b THEN 2 ^ i ELSE 0

\* the sequence <<F(lo), ..., F(hi)>>
RECURSIVE Tabulate(_, _, _)
Tabulate(F(_), lo, hi) ==
    IF lo = hi THEN <<F(lo)>>
    ELSE Tabulate(F, lo, (lo + hi) \div 2) \o Tabulate(F, (lo + hi) \div 2 + 1, hi)

\* xor of the two 4-bit halves of p
XorNibbles(p) ==
    LET a == p \div 16
        b == p % 16
    IN  BitVal(Bit(a, 0) # Bit(b, 0), 0) + BitVal(Bit(a, 1) # Bit(b, 1), 1)
        + BitVal(Bit(a, 2) # Bit(b, 2), 2) + BitVal(Bit(a, 3) # Bit(b, 3), 3)

\* xor of two 4-bit numbers a and b, at position 16 * a + b + 1
Xor4 == Tabulate(XorNibbles, 0, 255)

\* xor of the two bytes of p, nibble by nibble
XorBytes(p) ==
    LET a == p \div 256
        b == p % 256
    IN  16 * Xor4[16 * (a \div 16) + (b \div 16) + 1] + Xor4[16 * (a % 16) + (b % 16) + 1]

\* xor of two bytes a and b, at position 256 * a + b + 1
Xor8Table == Tabulate(XorBytes, 0, 65535)

\* xor of two bytes
Xor8(a, b) == Xor8Table[256 * a + b + 1]

\* one step of the table construction on a register of 32 bits (least
\* significant first): shift right, xor the polynomial in when a 1 fell out
CrcStep(c) ==
    LET s == Tail(c) \o <<FALSE>>
    IN  IF c[1] THEN [i \in 1..32 |-> s[i] # ((i - 1) \in PolyBits)] ELSE s

BitsToByte(c, lo) ==
    BitVal(c[lo + 1], 0) + BitVal(c[lo + 2], 1) + BitVal(c[lo + 3], 2) + BitVal(c[lo + 4], 3)
    + BitVal(c[lo + 5], 4) + BitVal(c[lo + 6], 5) + BitVal(c[lo + 7], 6) + BitVal(c[lo + 8], 7)

\* the table entry of byte n: 8 steps on the register holding n
CrcTableEntry(n) ==
    With(CrcStep(CrcStep(CrcStep(CrcStep(CrcStep(CrcStep(CrcStep(CrcStep(
            [i \in 1..32 |-> i <= 8 /\ Bit(n, i - 1)])))))))), LAMBDA c :
        <<BitsToByte(c, 0), BitsToByte(c, 8), BitsToByte(c, 16), BitsToByte(c, 24)>>)

\* crc32.IEEETable, the entry of byte n at position n + 1
CrcTable == Tabulate(CrcTableEntry, 0, 255)

CrcByte(c, b) ==
    With(CrcTable[Xor8(c[1], b) + 1], LAMBDA t :
        <<Xor8(t[1], c[2]), Xor8(t[2], c[3]), Xor8(t[3], c[4]), t[4]>>)

\* the register after the bytes data[lo..hi], in order; the range is halved
\* and the left half finished first, which keeps the evaluation depth
\* logarithmic in the length
RECURSIVE CrcFold(_, _, _, _)
CrcFold(c, data, lo, hi) ==
    IF lo > hi THEN c
    ELSE IF lo = hi THEN CrcByte(c, data[lo])
    ELSE LET mid == (lo + hi) \div 2
             left == CrcFold(c, data, lo, mid)
         IN  IF Len(left) = 4 THEN CrcFold(left, data, mid + 1, hi) ELSE left

\* the checksum as the 4 bytes binary.Write emits for the uint32
calculateCRC(data) ==
    With(CrcFold(<<255, 255, 255, 255>>, data, 1, Len(data)), LAMBDA c :
        <<255 - c[1], 255 - c[2], 255 - c[3], 255 - c[4]>>)

(***************************************************************************)
(* Block (data block under construction), block.go                         *)
(***************************************************************************)
NewBlock == [entries |-> <<>>, size |-> 0]

\* Block.AddEntry: append the entry, size += len(key) + len(value)
AddEntry(b, key, value) ==
    [entries |-> Append(b.entries, [Key |-> key, Value |-> value]),
     size    |-> b.size + Len(key) + Len(value)]

\* IsFull with a strict comparison
IsFullStrict(b) == b.size > BlockSize

IsFull(b) == b.size >= BlockSize

IsEmpty(b) == Len(b.entries) = 0

KeyCount(b) == Len(b.entries)

RECURSIVE EncodeEntries(_)
EncodeEntries(es) ==
    IF es = <<>> THEN <<>>
    ELSE U32LE(Len(Head(es).Key)) \o Head(es).Key
         \o U32LE(Len(Head(es).Value)) \o Head(es).Value
         \o EncodeEntries(Tail(es))

\* Block.Encode: [count u32] then per entry [keyLen u32][key][valueLen u32][value]
BlockEncode(b) == U32LE(Len(b.entries)) \o EncodeEntries(b.entries)

(***************************************************************************)
(* IBlock (index block), index.go                                          *)
(***************************************************************************)
NewIBlock == <<>>

IBlockAddEntry(ib, key, handle) == Append(ib, [Key |-> key, BlockHandle |-> handle])

RECURSIVE EncodeIndexEntries(_)
EncodeIndexEntries(es) ==
    IF es = <<>> THEN <<>>
    ELSE U32LE(Len(Head(es).Key)) \o Head(es).Key
         \o U64LE(Head(es).BlockHandle.Offset) \o U64LE(Head(es).BlockHandle.Size)
         \o EncodeIndexEntries(Tail(es))

\* IBlock.Encode: [count u32] then per entry [keyLen u32][key][offset u64][size u64]
IBlockEncode(ib) == U32LE(Len(ib)) \o EncodeIndexEntries(ib)

(***************************************************************************)
(* BlockMetadata and Footer, types.go                                      *)
(***************************************************************************)
\* binary.Write of BlockMetadata{Type, CRC, Size, KeyCount, Compressed}
EncodeMetadata(type, crc, size, keyCount) ==
    U8(type) \o crc \o U32LE(size) \o U32LE(keyCount) \o U8(0)

\* Footer.Encode without the reserved FilterHandle
FooterEncodeNoFilter(indexOffset, indexSize, createdAt) ==
    U64LE(indexOffset) \o U64LE(indexSize)
    \o MagicNumber
    \o U32LE(CurrentVersion)
    \o U64LE(createdAt)
    \o U8(NoCompression)

\* Footer.Encode: IndexHandle, FilterHandle (zero), MagicNumber, Version,
\* CreatedAt, CompressionType: 53 bytes
FooterEncode(indexOffset, indexSize, createdAt) ==
    U64LE(indexOffset) \o U64LE(indexSize)
    \o U64LE(0) \o U64LE(0)
    \o MagicNumber
    \o U32LE(CurrentVersion)
    \o U64LE(createdAt)
    \o U8(NoCompression)

(***************************************************************************)
(* Reading: os.File, io.ReadFull, bytes.Reader, binary.Read                *)
(***************************************************************************)
NoErr == ""

\* int64 view of a uint64 field: -1 stands for every negative value
DecI64(bs) == IF NegativeI64(bs) THEN -1 ELSE DecLE(bs)

\* io.ReadFull of n bytes from a file at byte offset pos
ReadFull(file, pos, n) ==
    IF n = 0 THEN [err |-> NoErr, bytes |-> <<>>]
    ELSE IF pos >= Len(file) THEN [err |-> "EOF", bytes |-> <<>>]
    ELSE IF pos + n > Len(file) THEN [err |-> "unexpected EOF", bytes |-> <<>>]
    ELSE [err |-> NoErr, bytes |-> SubSeq(file, pos + 1, pos + n)]

\* binary.Read of an n-byte integer from a bytes.Reader at offset i
BufReadInt(data, i, n) ==
    IF i >= Len(data) THEN [err |-> "EOF", val |-> 0, next |-> i]
    ELSE IF i + n > Len(data) THEN [err |-> "unexpected EOF", val |-> 0, next |-> Len(data)]
    ELSE [err |-> NoErr, val |-> DecI64(SubSeq(data, i + 1, i + n) \o Zeros(8 - n)), next |-> i + n]

\* bytes.Reader.Read into a buffer of n bytes at offset i: io.EOF when nothing
\* is left (also for n = 0), otherwise copies what is there and reports no
\* error; the rest of the buffer keeps the zeros of make
BufRead(data, i, n) ==
    IF i >= Len(data) THEN [err |-> "EOF", bytes |-> Zeros(n), next |-> i]
    ELSE LET m == Min(n, Len(data) - i)
         IN  [err |-> NoErr, bytes |-> SubSeq(data, i + 1, i + m) \o Zeros(n - m), next |-> i + m]

\* binary.Read of a BlockMetadata from the file at offset pos
ReadMetadata(file, pos) ==
    With(ReadFull(file, pos, MetadataSize), LAMBDA rd :
    With(rd.bytes, LAMBDA b :
        IF rd.err # NoErr THEN [err |-> rd.err]
        ELSE [err |-> NoErr, Type |-> b[1], CRC |-> SubSeq(b, 2, 5),
              Size |-> DecLE(SubSeq(b, 6, 9)), KeyCount |-> DecLE(SubSeq(b, 10, 13)),
              Compressed |-> b[14] # 0]))

\* DecodeFooter of the 64 footer bytes
DecodeFooter(data) ==
    [IndexHandle  |-> [Offset |-> DecI64(SubSeq(data, 1, 8)), Size |-> DecI64(SubSeq(data, 9, 16))],
     FilterHandle |-> [Offset |-> DecI64(SubSeq(data, 17, 24)), Size |-> DecI64(SubSeq(data, 25, 32))],
     MagicNumber  |-> SubSeq(data, 33, 40),
     Version      |-> DecLE(SubSeq(data, 41, 44)),
     CreatedAt    |-> DecI64(SubSeq(data, 45, 52)),
     CompressionType |-> data[53]]

\* the checks of loadIndexBlock and readBlock, each preceded by the variant
\* that leaves the check out
MagicSkipped(footer) == TRUE

\* footer.MagicNumber != MagicNumber
MagicOK(footer) == footer.MagicNumber = MagicNumber

TypeSkipped(metadata) == TRUE

\* metadata.Type != IndexBlock
TypeOK(metadata) == metadata.Type = IndexBlock

CrcSkipped(data, metadata) == TRUE

\* calculateCRC(data) != metadata.CRC
CrcOK(data, metadata) == calculateCRC(data) = metadata.CRC

\* Reader.decodeIndexBlock: the loop over numEntries entries from offset i
RECURSIVE decodeIndexEntries(_, _, _, _)
decodeIndexEntries(data, i, todo, acc) ==
    IF todo = 0 THEN [err |-> NoErr, entries |-> acc]
    ELSE
      With(BufReadInt(data, i, 4), LAMBDA keyLen :
      With(BufRead(data, keyLen.next, keyLen.val), LAMBDA key :
      With(BufReadInt(data, key.next, 8), LAMBDA off :
      With(BufReadInt(data, off.next, 8), LAMBDA size :
          IF keyLen.err # NoErr THEN [err |-> keyLen.err, entries |-> acc]
          ELSE IF key.err # NoErr THEN [err |-> key.err, entries |-> acc]
          ELSE IF off.err # NoErr THEN [err |-> off.err, entries |-> acc]
          ELSE IF size.err # NoErr THEN [err |-> size.err, entries |-> acc]
          ELSE decodeIndexEntries(data, size.next, todo - 1,
                  Append(acc, [Key |-> key.bytes,
                               BlockHandle |-> [Offset |-> off.val, Size |-> size.val]]))))))

decodeIndexBlock(data) ==
    With(BufReadInt(data, 0, 4), LAMBDA numEntries :
        IF numEntries.err # NoErr THEN [err |-> numEntries.err, entries |-> <<>>]
        ELSE decodeIndexEntries(data, numEntries.next, numEntries.val, <<>>))

\* Reader.loadIndexBlock on the bytes of the file.  sought is the offset of
\* the second Seek (-2 when loadIndexBlock returned before it).
loadIndexBlock(file) ==
    LET fail(e, s) == [err |-> e, entries |-> <<>>, sought |-> s]
    IN
    With(Len(file) - FooterSize, LAMBDA footerPos :
    With(ReadFull(file, footerPos, FooterSize), LAMBDA footerRead :
    With(DecodeFooter(footerRead.bytes), LAMBDA footer :
    With(footer.IndexHandle.Offset, LAMBDA indexPos :
    With(ReadMetadata(file, indexPos), LAMBDA metadata :
    With(ReadFull(file, indexPos + MetadataSize, metadata.Size), LAMBDA dataRead :
    With(decodeIndexBlock(dataRead.bytes), LAMBDA decoded :
        IF footerPos < 0 THEN fail("seek: invalid argument", -2)
        ELSE IF footerRead.err # NoErr THEN fail(footerRead.err, -2)
        ELSE IF ~MagicOK(footer) THEN fail("invalid SSTable file: wrong magic number", -2)
        ELSE IF indexPos < 0 THEN fail("seek: invalid argument", indexPos)
        ELSE IF metadata.err # NoErr THEN fail(metadata.err, indexPos)
        ELSE IF ~TypeOK(metadata) THEN fail("invalid index block type", indexPos)
        ELSE IF dataRead.err # NoErr THEN fail(dataRead.err, indexPos)
        ELSE IF ~CrcOK(dataRead.bytes, metadata) THEN fail("index block CRC mismatch", indexPos)
        ELSE IF decoded.err # NoErr THEN fail(decoded.err, indexPos)
        ELSE [err |-> NoErr, entries |-> decoded.entries, sought |-> indexPos])))))))

\* Reader.findBlockHandle: the binary search loop
RECURSIVE findLoop(_, _, _, _)
findLoop(entries, key, left, right) ==
    IF left < right
    THEN LET mid == (left + right) \div 2
         IN  IF Compare(entries[mid + 1].Key, key) <= 0
             THEN findLoop(entries, key, mid + 1, right)
             ELSE findLoop(entries, key, left, mid)
    ELSE left

\* findBlockHandle without the step back to the entry before the first greater one
findBlockHandleNoStepBack(entries, key) ==
    LET right == Len(entries) - 1
    IN  IF right < 0 THEN -1
        ELSE IF Compare(key, entries[right + 1].Key) >= 0 THEN right
        ELSE findLoop(entries, key, 0, right)

\* Reader.findBlockHandle: the position (from 0) of the selected index entry;
\* -1 when entries[right] is out of range (the index has no entry)
findBlockHandle(entries, key) ==
    With(Len(entries) - 1, LAMBDA right :
    With(findLoop(entries, key, 0, right), LAMBDA left :
        IF right < 0 THEN -1
        ELSE IF Compare(key, entries[right + 1].Key) >= 0 THEN right
        ELSE IF left > 0 THEN left - 1
        ELSE left))

\* Reader.readBlock: the loop over numEntries entries from offset i
RECURSIVE decodeEntries(_, _, _, _)
decodeEntries(data, i, todo, acc) ==
    IF todo = 0 THEN [err |-> NoErr, entries |-> acc]
    ELSE
      With(BufReadInt(data, i, 4), LAMBDA keyLen :
      With(BufRead(data, keyLen.next, keyLen.val), LAMBDA key :
      With(BufReadInt(data, key.next, 4), LAMBDA valueLen :
      With(BufRead(data, valueLen.next, valueLen.val), LAMBDA value :
          IF keyLen.err # NoErr THEN [err |-> keyLen.err, entries |-> acc]
          ELSE IF key.err # NoErr THEN [err |-> key.err, entries |-> acc]
          ELSE IF valueLen.err # NoErr THEN [err |-> valueLen.err, entries |-> acc]
          ELSE IF value.err # NoErr THEN [err |-> value.err, entries |-> acc]
          ELSE decodeEntries(data, value.next, todo - 1,
                  Append(acc, [Key |-> key.bytes, Value |-> value.bytes]))))))

\* Reader.readBlock
readBlock(file, handle) ==
    LET fail(e) == [err |-> e, entries |-> <<>>]
    IN
    With(ReadMetadata(file, handle.Offset), LAMBDA metadata :
    With(ReadFull(file, handle.Offset + MetadataSize, metadata.Size), LAMBDA dataRead :
    With(dataRead.bytes, LAMBDA data :
    With(BufReadInt(data, 0, 4), LAMBDA numEntries :
    With(decodeEntries(data, numEntries.next, numEntries.val, <<>>), LAMBDA decoded :
        IF handle.Offset < 0 THEN fail("seek: invalid argument")
        ELSE IF metadata.err # NoErr THEN fail(metadata.err)
        ELSE IF dataRead.err # NoErr THEN fail(dataRead.err)
        ELSE IF ~CrcOK(data, metadata) THEN fail("block CRC mismatch")
        ELSE IF numEntries.err # NoErr THEN fail(numEntries.err)
        ELSE IF decoded.err # NoErr THEN fail(decoded.err)
        ELSE [err |-> NoErr, entries |-> decoded.entries])))))

Value(v) == [kind |-> "value", value |-> v, err |-> NoErr]
Error(e) == [kind |-> "error", value |-> <<>>, err |-> e]
Panic(e) == [kind |-> "panic", value |-> <<>>, err |-> e]

\* Reader.searchInBlock
RECURSIVE searchInBlock(_, _, _, _)
searchInBlock(entries, key, left, right) ==
    IF left <= right
    THEN With((left + right) \div 2, LAMBDA mid :
         With(Compare(entries[mid + 1].Key, key), LAMBDA cmp :
             IF cmp = 0 THEN Value(entries[mid + 1].Value)
             ELSE IF cmp < 0 THEN searchInBlock(entries, key, mid + 1, right)
             ELSE searchInBlock(entries, key, left, mid - 1)))
    ELSE Error("key not found")

\* Reader.Get on a Reader holding indexBlock over the bytes of its file:
\* sel is the position (from 1) of the index entry whose block was loaded
ReaderGet(indexBlock, file, key) ==
    With(findBlockHandle(indexBlock, key), LAMBDA at :
    With(readBlock(file, indexBlock[at + 1].BlockHandle), LAMBDA block :
        IF at < 0
        THEN [sel |-> 0, res |-> Panic("index out of range [-1]")]
        ELSE IF block.err # NoErr
        THEN [sel |-> at + 1, res |-> Error(block.err)]
        ELSE [sel |-> at + 1,
              res |-> searchInBlock(block.entries, key, 0, Len(block.entries) - 1)]))

(***************************************************************************)
(* MemTableImpl and its two backends (internal/ds).  Both delegate to a    *)
(* library: the skip list is its bottom list, the elements in key order    *)
(* (the upper levels only shorten the search); the red-black tree is a     *)
(* binary search tree of coloured nodes, rebalanced on insertion, with a   *)
(* node counter.  Keys are strings, compared byte by byte.                 *)
(***************************************************************************)
NewSkipListMemTable == <<>>

\* skiplist.Set that inserts a second element for a key that is in the list
RECURSIVE SkipListInsert(_, _, _)
SkipListInsert(list, key, value) ==
    IF list = <<>> THEN <<[key |-> key, value |-> value]>>
    ELSE IF Compare(key, Head(list).key) <= 0
    THEN <<[key |-> key, value |-> value]>> \o list
    ELSE <<Head(list)>> \o SkipListInsert(Tail(list), key, value)

\* SkipListMemTable.Set: the element of key gets the value, a new element is
\* inserted at its place in key order
RECURSIVE SkipListSet(_, _, _)
SkipListSet(list, key, value) ==
    IF list = <<>> THEN <<[key |-> key, value |-> value]>>
    ELSE IF Compare(key, Head(list).key) = 0
    THEN <<[key |-> key, value |-> value]>> \o Tail(list)
    ELSE IF Compare(key, Head(list).key) < 0
    THEN <<[key |-> key, value |-> value]>> \o list
    ELSE <<Head(list)>> \o SkipListSet(Tail(list), key, value)

\* SkipListMemTable.Get
RECURSIVE SkipListGet(_, _)
SkipListGet(list, key) ==
    IF list = <<>> THEN [value |-> <<>>, ok |-> FALSE]
    ELSE IF Compare(key, Head(list).key) = 0 THEN [value |-> Head(list).value, ok |-> TRUE]
    ELSE IF Compare(key, Head(list).key) < 0 THEN [value |-> <<>>, ok |-> FALSE]
    ELSE SkipListGet(Tail(list), key)

\* SkipListMemTable.Len
SkipListLen(list) == Len(list)

Nil == [nil |-> TRUE]

Node(red, left, key, value, right) ==
    [nil |-> FALSE, red |-> red, left |-> left, key |-> key, value |-> value, right |-> right]

IsRed(t) == ~t.nil /\ t.red

NewRedBlackTreeMemTable == [root |-> Nil, size |-> 0]

\* rebalancing after an insertion below the black node t: a red child with a
\* red child becomes a red node with two black children
Balance(t) ==
    IF t.red THEN t
    ELSE IF IsRed(t.left) /\ IsRed(t.left.left)
    THEN Node(TRUE,
              Node(FALSE, t.left.left.left, t.left.left.key, t.left.left.value, t.left.left.right),
              t.left.key, t.left.value,
              Node(FALSE, t.left.right, t.key, t.value, t.right))
    ELSE IF IsRed(t.left) /\ IsRed(t.left.right)
    THEN Node(TRUE,
              Node(FALSE, t.left.left, t.left.key, t.left.value, t.left.right.left),
              t.left.right.key, t.left.right.value,
              Node(FALSE, t.left.right.right, t.key, t.value, t.right))
    ELSE IF IsRed(t.right) /\ IsRed(t.right.left)
    THEN Node(TRUE,
              Node(FALSE, t.left, t.key, t.value, t.right.left.left),
              t.right.left.key, t.right.left.value,
              Node(FALSE, t.right.left.right, t.right.key, t.right.value, t.right.right))
    ELSE IF IsRed(t.right) /\ IsRed(t.right.right)
    THEN Node(TRUE,
              Node(FALSE, t.left, t.key, t.value, t.right.left),
              t.right.key, t.right.value,
              Node(FALSE, t.right.right.left, t.right.right.key, t.right.right.value,
                   t.right.right.right))
    ELSE t

\* the tree after key is inserted below t, or its node updated
RECURSIVE RbtInsert(_, _, _)
RbtInsert(t, key, value) ==
    IF t.nil THEN Node(TRUE, Nil, key, value, Nil)
    ELSE IF Compare(key, t.key) < 0
    THEN Balance([t EXCEPT !.left = RbtInsert(t.left, key, value)])
    ELSE IF Compare(key, t.key) > 0
    THEN Balance([t EXCEPT !.right = RbtInsert(t.right, key, value)])
    ELSE [t EXCEPT !.value = value]

\* RedBlackTreeMemTable.Get
RECURSIVE RbtGet(_, _)
RbtGet(t, key) ==
    IF t.nil THEN [value |-> <<>>, ok |-> FALSE]
    ELSE IF Compare(key, t.key) < 0 THEN RbtGet(t.left, key)
    ELSE IF Compare(key, t.key) > 0 THEN RbtGet(t.right, key)
    ELSE [value |-> t.value, ok |-> TRUE]

\* RedBlackTreeMemTable.Set: the root is black, the counter counts new nodes
RbtPut(tree, key, value) ==
    [root |-> [RbtInsert(tree.root, key, value) EXCEPT !.red = FALSE],
     size |-> IF RbtGet(tree.root, key).ok THEN tree.size ELSE tree.size + 1]

\* RedBlackTreeMemTable.Len
RbtLen(tree) == tree.size

Backends == {"skiplist", "rbt"}

\* the MemTableImpl interface, on the data of the backend
ImplNew(backend) == IF backend = "skiplist" THEN NewSkipListMemTable ELSE NewRedBlackTreeMemTable

ImplSet(backend, data, key, value) ==
    IF backend = "skiplist" THEN SkipListSet(data, key, value) ELSE RbtPut(data, key, value)

ImplGet(backend, data, key) ==
    IF backend = "skiplist" THEN SkipListGet(data, key) ELSE RbtGet(data.root, key)

ImplLen(backend, data) ==
    IF backend = "skiplist" THEN SkipListLen(data) ELSE RbtLen(data)

(***************************************************************************)
(* MemTable (memtable.go), called by one goroutine                         *)
(***************************************************************************)
\* MemTable.Put: size -= len(existing) when the key exists, Set, size += len(value)
MemTablePut(m, key, value) ==
    With(ImplGet(m.backend, m.data, key), LAMBDA existing :
        [m EXCEPT !.data = ImplSet(m.backend, m.data, key, value),
                  !.size = (IF existing.ok THEN @ - Len(existing.value) ELSE @) + Len(value)])

\* MemTable.Get: (value, true), or (nil, false)
MemTableGet(m, key) ==
    With(ImplGet(m.backend, m.data, key), LAMBDA found :
        IF ~found.ok THEN [value |-> <<>>, ok |-> FALSE]
        ELSE [value |-> found.value, ok |-> TRUE])

\* MemTable.Size
MemTableSize(m) == m.size

\* MemTable.Len
MemTableLen(m) == ImplLen(m.backend, m.data)

(***************************************************************************)
(* State                                                                   *)
(***************************************************************************)
VARIABLES
    now,       \* the clock, in seconds
    files,     \* the directory: file name -> bytes of the file
    w,         \* the Writer
    created,   \* file names returned by NewWriter, in call order
    log,       \* the (key, value) pairs passed to Write in this session
    nwrites,   \* the number of Write calls so far, over all sessions
    pristine,  \* the bytes the last successful Close wrote
    r,         \* the Reader and the result of NewReader
    got,       \* the last Get call: its key, the index entry selected, its result
    damage,    \* what happened to the closed file before it was opened
    cursor,    \* the read position of the Reader's os.File, shared by all its users
    calls,     \* the Get calls in progress on the Reader, one per goroutine
    mem,       \* the MemTable: its backend, the backend's data, its size counter
    puts,      \* the (key, value) pairs passed to MemTable.Put, in call order
    mres,      \* the result of the last Get, Len or Size call on the MemTable
    mu,        \* the MemTable's RWMutex: the number of read locks held, the write lock
    threads,   \* the call each goroutine is making on the MemTable, and its position
    dec        \* a block payload cut short, and what the Reader decoded from it

\* the table: its Writer, its file, its Reader and the sequential Get
sstVars == <<now, files, w, created, log, nwrites, pristine, r, got, damage>>

\* the goroutines that share the Reader
getVars == <<cursor, calls>>

\* the MemTable and its callers
memVars == <<mem, puts, mres, mu, threads>>

vars == <<sstVars, getVars, memVars, dec>>

NoWriter ==
    [state |-> "none", filename |-> -1, block |-> NewBlock, index |-> NewIBlock,
     bufWriter |-> <<>>, err |-> FALSE, offset |-> 0, pos |-> 0]

NoReader == [state |-> "none", err |-> NoErr, indexBlock |-> <<>>, sought |-> -2, fileOpen |-> FALSE]

NoGet == [called |-> FALSE, key |-> <<>>, sel |-> 0, res |-> Value(<<>>)]

\* a MemTable that was not created yet, and no call made on it
NoMemTable == [backend |-> "none", data |-> <<>>, size |-> 0]

NoMemResult == [op |-> "none", key |-> <<>>, value |-> <<>>, ok |-> FALSE, n |-> 0, after |-> 0]

\* no payload was decoded yet
NoDecode == [kind |-> "none", full |-> <<>>, payload |-> <<>>, err |-> NoErr, entries |-> <<>>]

\* the goroutines that call the MemTable, and a goroutine between two calls
Threads == 1..MaxThreads

NoThread ==
    [pc |-> "idle", op |-> "none", key |-> <<>>, value |-> <<>>,
     existing |-> [value |-> <<>>, ok |-> FALSE], size |-> 0, data |-> <<>>,
     res |-> NoMemResult]

\* the goroutines that call Get, and a goroutine that has not called yet
Getters == 1..MaxGetters

NoCall ==
    [pc |-> "idle", key |-> <<>>, handle |-> [Offset |-> 0, Size |-> 0],
     metadata |-> [err |-> NoErr], res |-> Value(<<>>)]

\* keys and values the callers pass to Write, and keys they pass to Get
WriteKeys == {<<2>>, <<4>>, <<4, 0>>, <<6>>}
Values == {<<>>, <<9>>, <<8, 8, 8>>}
ProbeKeys == WriteKeys \cup {<<1>>}

\* time.Now().Format("20060102150405"): one name per clock second
FileName(t) == t

\* write(2) at file position pos: bytes are overwritten, the rest is kept
WriteAt(old, pos, bs) ==
    LET n == IF Len(old) > pos + Len(bs) THEN Len(old) ELSE pos + Len(bs)
    IN  [i \in 1..n |-> IF i > pos /\ i <= pos + Len(bs) THEN bs[i - pos] ELSE old[i]]

Init ==
    /\ now = 0
    /\ files = <<>>
    /\ w = NoWriter
    /\ created = <<>>
    /\ log = <<>>
    /\ nwrites = 0
    /\ pristine = <<>>
    /\ r = NoReader
    /\ got = NoGet
    /\ damage = "none"
    /\ cursor = 0
    /\ calls = [g \in Getters |-> NoCall]
    /\ mem = NoMemTable
    /\ puts = <<>>
    /\ mres = NoMemResult
    /\ mu = [readers |-> 0, writer |-> FALSE]
    /\ threads = [t \in Threads |-> NoThread]
    /\ dec = NoDecode

\* NewWriter: os.OpenFile(name, O_CREATE|O_WRONLY): creates the file when it
\* does not exist, opens the existing file otherwise (no O_EXCL, no O_TRUNC)
OpenFile(fs, name) ==
    IF name \in DOMAIN fs THEN fs ELSE [n \in DOMAIN fs \cup {name} |-> IF n = name THEN <<>> ELSE fs[n]]

NewWriter ==
    /\ w.state # "open"
    /\ Len(created) < MaxSessions
    /\ files' = OpenFile(files, FileName(now))
    /\ w' = [NoWriter EXCEPT !.state = "open", !.filename = FileName(now)]
    /\ created' = Append(created, FileName(now))
    /\ log' = <<>>
    /\ UNCHANGED <<nwrites, now, pristine, r, got, damage>>
    /\ UNCHANGED <<getVars, memVars, dec>>

\* flushBlock that records the last key of the block in the index
flushBlockLastKey(wr) ==
    IF IsEmpty(wr.block) THEN wr
    ELSE
      With(BlockEncode(wr.block), LAMBDA data :
          [wr EXCEPT !.index = IBlockAddEntry(wr.index, wr.block.entries[Len(wr.block.entries)].Key,
                                              [Offset |-> wr.offset, Size |-> wr.block.size]),
                     !.bufWriter = @ \o EncodeMetadata(DataBlock, calculateCRC(data), Len(data),
                                                       KeyCount(wr.block)) \o data,
                     !.offset = @ + Len(data) + MetadataSize,
                     !.block = NewBlock])

\* flushBlock that advances the offset by the payload only
flushBlockNoHeader(wr) ==
    IF IsEmpty(wr.block) THEN wr
    ELSE
      With(BlockEncode(wr.block), LAMBDA data :
          [wr EXCEPT !.index = IBlockAddEntry(wr.index, wr.block.entries[1].Key,
                                              [Offset |-> wr.offset, Size |-> wr.block.size]),
                     !.bufWriter = @ \o EncodeMetadata(DataBlock, calculateCRC(data), Len(data),
                                                       KeyCount(wr.block)) \o data,
                     !.offset = @ + Len(data),
                     !.block = NewBlock])

\* flushBlock that keeps the flushed entries in the current block
flushBlockKeepsBlock(wr) ==
    IF IsEmpty(wr.block) THEN wr
    ELSE
      With(BlockEncode(wr.block), LAMBDA data :
          [wr EXCEPT !.index = IBlockAddEntry(wr.index, wr.block.entries[1].Key,
                                              [Offset |-> wr.offset, Size |-> wr.block.size]),
                     !.bufWriter = @ \o EncodeMetadata(DataBlock, calculateCRC(data), Len(data),
                                                       KeyCount(wr.block)) \o data,
                     !.offset = @ + Len(data) + MetadataSize])

\* flushBlock: the Writer after flushing its current block
flushBlock(wr) ==
    IF IsEmpty(wr.block) THEN wr
    ELSE
      With(wr.block.entries[1].Key, LAMBDA firstKey :
      With([Offset |-> wr.offset, Size |-> wr.block.size], LAMBDA blockHandle :
      With(BlockEncode(wr.block), LAMBDA data :
      With(EncodeMetadata(DataBlock, calculateCRC(data), Len(data), KeyCount(wr.block)),
           LAMBDA metadata :
          [wr EXCEPT !.index = IBlockAddEntry(wr.index, firstKey, blockHandle),
                     !.bufWriter = @ \o metadata \o data,
                     !.offset = @ + Len(data) + MetadataSize,
                     !.block = NewBlock]))))

\* flushBlock when a write to the buffered writer fails, at the metadata
\* header or at the payload: the index entry is recorded before the writes,
\* the header may have been accepted, the error is returned before the offset
\* is advanced and the block replaced; the buffered writer keeps the error
flushBlockFails(wr, at) ==
    IF IsEmpty(wr.block) THEN wr
    ELSE
      With(BlockEncode(wr.block), LAMBDA data :
          [wr EXCEPT !.index = IBlockAddEntry(wr.index, wr.block.entries[1].Key,
                                              [Offset |-> wr.offset, Size |-> wr.block.size]),
                     !.bufWriter = IF at = "data"
                                   THEN @ \o EncodeMetadata(DataBlock, calculateCRC(data), Len(data),
                                                            KeyCount(wr.block))
                                   ELSE @,
                     !.err = TRUE])

\* where a flush can fail: at either write, at the first one once the
\* buffered writer holds an error
FailsAt(wr) == IF wr.err THEN {"metadata"} ELSE {"metadata", "data"}

\* Writer.Write(key, value) whose flush fails: Write returns the error and does
\* not add the entry
WriteFlushFails ==
    /\ w.state = "open"
    /\ nwrites < MaxWrites
    /\ IsFull(w.block)
    /\ \E at \in FailsAt(w) : w' = flushBlockFails(w, at)
    /\ nwrites' = nwrites + 1
    /\ UNCHANGED <<now, files, created, log, pristine, r, got, damage>>
    /\ UNCHANGED <<getVars, memVars, dec>>

\* Writer.Close whose flush of the current block fails: Close returns the error
CloseFlushFails ==
    /\ w.state = "open"
    /\ ~IsEmpty(w.block)
    /\ Len(w.index) < MaxWrites
    /\ \E at \in FailsAt(w) : w' = flushBlockFails(w, at)
    /\ UNCHANGED <<nwrites, now, files, created, log, pristine, r, got, damage>>
    /\ UNCHANGED <<getVars, memVars, dec>>

\* Writer.Write(key, value); callers pass keys in strictly increasing order
Write ==
    /\ w.state = "open"
    /\ nwrites < MaxWrites
    /\ IsFull(w.block) => ~w.err
    /\ \E key \in WriteKeys, value \in Values :
        /\ log # <<>> => Compare(log[Len(log)].key, key) < 0
        /\ \E w1 \in {IF IsFull(w.block) THEN flushBlock(w) ELSE w} :
               w' = [w1 EXCEPT !.block = AddEntry(w1.block, key, value)]
        /\ log' = Append(log, [key |-> key, value |-> value])
    /\ nwrites' = nwrites + 1
    /\ UNCHANGED <<now, files, created, pristine, r, got, damage>>
    /\ UNCHANGED <<getVars, memVars, dec>>

\* Writer.Close: flush the current block, write the index block, flush the
\* buffered writer, write the padded footer, close the file
Close ==
    /\ w.state = "open"
    /\ ~w.err
    /\ \E w1 \in {flushBlock(w)} :
       \E indexData \in {IBlockEncode(w1.index)} :
       \E indexMetadata \in {EncodeMetadata(IndexBlock, calculateCRC(indexData),
                                            Len(indexData), Len(w1.index))} :
       \E footerData \in {FooterEncode(w1.offset, Len(indexData), now)} :
       \E out \in {w1.bufWriter \o indexMetadata \o indexData
                    \o footerData \o Zeros(FooterSize - Len(footerData))} :
           /\ Len(footerData) <= FooterSize
           /\ files' = [files EXCEPT ![w.filename] = WriteAt(@, w.pos, out)]
           /\ w' = [w1 EXCEPT !.state = "closed", !.bufWriter = <<>>,
                              !.offset = @ + Len(indexData) + MetadataSize,
                              !.pos = @ + Len(out)]
           /\ pristine' = out
    /\ UNCHANGED <<nwrites, now, created, log, r, got, damage>>
    /\ UNCHANGED <<getVars, memVars, dec>>

Tick ==
    /\ now < MaxTime
    /\ now' = now + 1
    /\ UNCHANGED <<nwrites, files, w, created, log, pristine, r, got, damage>>
    /\ UNCHANGED <<getVars, memVars, dec>>

\* NewReader(filename) on the file of the closed Writer: open the file, load
\* the index block; on an error close the file and return no Reader
NewReader ==
    /\ w.state = "closed"
    /\ r.state = "none"
    /\ \E loaded \in {loadIndexBlock(files[w.filename])} :
           r' = IF loaded.err # NoErr
                THEN [state |-> "failed", err |-> loaded.err, indexBlock |-> <<>>,
                      sought |-> loaded.sought, fileOpen |-> FALSE]
                ELSE [state |-> "open", err |-> NoErr, indexBlock |-> loaded.entries,
                      sought |-> loaded.sought, fileOpen |-> TRUE]
    /\ UNCHANGED <<nwrites, now, files, w, created, log, pristine, got, damage>>
    /\ UNCHANGED <<getVars, memVars, dec>>

\* Reader.Get(key).  Get changes neither the Reader nor the file, so every
\* call starts from the same state; a behaviour follows one call.
Get ==
    /\ r.state = "open"
    /\ ~got.called
    /\ \E key \in ProbeKeys :
       \E g \in {ReaderGet(r.indexBlock, files[w.filename], key)} :
           got' = [called |-> TRUE, key |-> key, sel |-> g.sel, res |-> g.res]
    /\ UNCHANGED <<nwrites, now, files, w, created, log, pristine, r, damage>>
    /\ UNCHANGED <<getVars, memVars, dec>>

\* Damage to a closed file before it is opened: one byte takes another value
FlipByte ==
    /\ w.state = "closed"
    /\ r.state = "none"
    /\ damage = "none"
    /\ \E pos \in 1..Len(files[w.filename]) :
        files' = [files EXCEPT ![w.filename][pos] = (@ + 1) % 256]
    /\ damage' = "flip"
    /\ UNCHANGED <<nwrites, now, w, created, log, pristine, r, got>>
    /\ UNCHANGED <<getVars, memVars, dec>>

\* Damage to a closed file before it is opened: the trailing 64 bytes are cut
TruncateFooter ==
    /\ w.state = "closed"
    /\ r.state = "none"
    /\ damage = "none"
    /\ files' = [files EXCEPT ![w.filename] = SubSeq(@, 1, Len(@) - FooterSize)]
    /\ damage' = "truncate"
    /\ UNCHANGED <<nwrites, now, w, created, log, pristine, r, got>>
    /\ UNCHANGED <<getVars, memVars, dec>>

\* one Writer session on a directory that holds no table yet
FirstNewWriter == created = <<>> /\ NewWriter

\* a table is written, closed, opened and read
Next == FirstNewWriter \/ Write \/ Close \/ NewReader \/ Get

Spec == Init /\ [][Next]_vars

\* the closed file may be damaged before it is opened
NextDamage == Next \/ FlipByte \/ TruncateFooter

SpecDamage == Init /\ [][NextDamage]_vars

\* a Writer whose writes to the file can fail
NextFail == FirstNewWriter \/ Write \/ Close \/ WriteFlushFails \/ CloseFlushFails

SpecFail == Init /\ [][NextFail]_vars

\* Writer sessions follow one another in the same directory while time passes
NextDir == NewWriter \/ Write \/ Close \/ Tick

SpecDir == Init /\ [][NextDir]_vars

(***************************************************************************)
(* Get calls of several goroutines on one Reader.  Reader has no lock and  *)
(* one os.File: Seek, binary.Read and io.ReadFull of readBlock are three   *)
(* calls on the file's single cursor, and another goroutine may run        *)
(* between any two of them.                                                *)
(***************************************************************************)
\* the cursor after a read of n bytes at position pos of the file
Advance(file, pos, n) == IF pos >= Len(file) THEN pos ELSE Min(pos + n, Len(file))

\* Reader.readBlock after its two reads: the CRC check and the decoding of
\* the payload read
decodeBlock(dataRead, metadata) ==
    LET fail(e) == [err |-> e, entries |-> <<>>]
    IN
    With(dataRead.bytes, LAMBDA data :
    With(BufReadInt(data, 0, 4), LAMBDA numEntries :
    With(decodeEntries(data, numEntries.next, numEntries.val, <<>>), LAMBDA decoded :
        IF dataRead.err # NoErr THEN fail(dataRead.err)
        ELSE IF ~CrcOK(data, metadata) THEN fail("block CRC mismatch")
        ELSE IF numEntries.err # NoErr THEN fail(numEntries.err)
        ELSE IF decoded.err # NoErr THEN fail(decoded.err)
        ELSE [err |-> NoErr, entries |-> decoded.entries])))

\* Reader.Get up to the call of readBlock: the index search
GetStart(g) ==
    /\ r.state = "open"
    /\ calls[g].pc = "idle"
    /\ \E key \in ProbeKeys :
       \E at \in {findBlockHandle(r.indexBlock, key)} :
           calls' = [calls EXCEPT ![g] =
               IF at < 0
               THEN [@ EXCEPT !.pc = "done", !.key = key,
                              !.res = Panic("index out of range [-1]")]
               ELSE [@ EXCEPT !.pc = "seek", !.key = key,
                              !.handle = r.indexBlock[at + 1].BlockHandle]]
    /\ UNCHANGED <<sstVars, cursor, memVars, dec>>

\* readBlock: r.file.Seek(int64(handle.Offset), 0)
GetSeek(g) ==
    /\ calls[g].pc = "seek"
    /\ IF calls[g].handle.Offset < 0
       THEN /\ calls' = [calls EXCEPT ![g].pc = "done",
                                      ![g].res = Error("seek: invalid argument")]
            /\ UNCHANGED cursor
       ELSE /\ cursor' = calls[g].handle.Offset
            /\ calls' = [calls EXCEPT ![g].pc = "metadata"]
    /\ UNCHANGED <<sstVars, memVars, dec>>

\* readBlock: binary.Read(r.file, binary.LittleEndian, &metadata), at the cursor
GetReadMetadata(g) ==
    /\ calls[g].pc = "metadata"
    /\ \E metadata \in {ReadMetadata(files[w.filename], cursor)} :
           calls' = [calls EXCEPT ![g] =
               IF metadata.err # NoErr
               THEN [@ EXCEPT !.pc = "done", !.res = Error(metadata.err)]
               ELSE [@ EXCEPT !.pc = "data", !.metadata = metadata]]
    /\ cursor' = Advance(files[w.filename], cursor, MetadataSize)
    /\ UNCHANGED <<sstVars, memVars, dec>>

\* readBlock: io.ReadFull(r.file, data) at the cursor, then the CRC check and
\* the decoding; Get: searchInBlock
GetReadData(g) ==
    /\ calls[g].pc = "data"
    /\ \E block \in {decodeBlock(ReadFull(files[w.filename], cursor, calls[g].metadata.Size),
                                calls[g].metadata)} :
           calls' = [calls EXCEPT ![g].pc = "done",
                                  ![g].res =
                                      IF block.err # NoErr THEN Error(block.err)
                                      ELSE searchInBlock(block.entries, calls[g].key, 0,
                                                         Len(block.entries) - 1)]
    /\ cursor' = Advance(files[w.filename], cursor, calls[g].metadata.Size)
    /\ UNCHANGED <<sstVars, memVars, dec>>

\* a table is written and opened, then goroutines call Get on the Reader
NextConc ==
    \/ FirstNewWriter \/ Write \/ Close \/ NewReader
    \/ \E g \in Getters : GetStart(g) \/ GetSeek(g) \/ GetReadMetadata(g) \/ GetReadData(g)

SpecConc == Init /\ [][NextConc]_vars

(***************************************************************************)
(* The MemTable under the calls of one goroutine                           *)
(***************************************************************************)
\* keys and values the callers pass to Put, keys they pass to Get
MemKeys == {<<1>>, <<2>>, <<1, 0>>}
MemValues == {<<>>, <<7>>, <<5, 5>>}

NewMemTable ==
    /\ mem.backend = "none"
    /\ \E backend \in Backends :
           mem' = [backend |-> backend, data |-> ImplNew(backend), size |-> 0]
    /\ UNCHANGED <<sstVars, getVars, dec, puts, mres, mu, threads>>

Put ==
    /\ mem.backend # "none"
    /\ Len(puts) < MaxPuts
    /\ \E key \in MemKeys, value \in MemValues :
        /\ mem' = MemTablePut(mem, key, value)
        /\ puts' = Append(puts, [key |-> key, value |-> value])
    /\ UNCHANGED <<sstVars, getVars, dec, mres, mu, threads>>

MemGet ==
    /\ mem.backend # "none"
    /\ \E key \in MemKeys :
       \E found \in {MemTableGet(mem, key)} :
           mres' = [NoMemResult EXCEPT !.op = "Get", !.key = key, !.value = found.value,
                                       !.ok = found.ok, !.after = Len(puts)]
    /\ UNCHANGED <<sstVars, getVars, dec, mem, puts, mu, threads>>

MemSize ==
    /\ mem.backend # "none"
    /\ mres' = [NoMemResult EXCEPT !.op = "Size", !.n = MemTableSize(mem), !.after = Len(puts)]
    /\ UNCHANGED <<sstVars, getVars, dec, mem, puts, mu, threads>>

MemLen ==
    /\ mem.backend # "none"
    /\ mres' = [NoMemResult EXCEPT !.op = "Len", !.n = MemTableLen(mem), !.after = Len(puts)]
    /\ UNCHANGED <<sstVars, getVars, dec, mem, puts, mu, threads>>

NextMem == NewMemTable \/ Put \/ MemGet \/ MemSize \/ MemLen

SpecMem == Init /\ [][NextMem]_vars

(***************************************************************************)
(* The MemTable under the calls of several goroutines.  A call is the      *)
(* steps of its method: the lock, each read and each write of the shared   *)
(* fields (m.size -= n and m.size += n are a load and a store), the        *)
(* deferred unlock.  A Set that overlaps another goroutine's Set on the    *)
(* same backend is a data race: it acts on the data as they are when it    *)
(* ends or on the data as they were when it began.                         *)
(***************************************************************************)
\* keys and values the goroutines pass
ConcKeys == {<<1>>, <<2>>}
ConcValues == {<<>>, <<5, 5>>}

\* the methods, and the lock each one takes
MemOps == {"Put", "Get", "Size", "Len"}

TakesRLock(op) == op \in {"Put", "Size", "Len"}

\* a goroutine calls a method
Call(t) ==
    /\ mem.backend # "none"
    /\ threads[t].pc = "idle"
    /\ \E op \in MemOps, key \in ConcKeys, value \in ConcValues :
        /\ op = "Put" => Len(puts) < MaxPuts
        /\ op \in {"Size", "Len"} => key = <<1>>
        /\ op # "Put" => value = <<>>
        /\ threads' = [threads EXCEPT ![t] =
               [NoThread EXCEPT !.pc = "lock", !.op = op, !.key = key, !.value = value]]
        /\ puts' = IF op = "Put" THEN Append(puts, [key |-> key, value |-> value]) ELSE puts
    /\ UNCHANGED <<sstVars, getVars, dec, mem, mres, mu>>

\* m.mu.RLock() in Put, Size and Len: waits while the write lock is held
RLock(t) ==
    /\ threads[t].pc = "lock"
    /\ TakesRLock(threads[t].op)
    /\ ~mu.writer
    /\ mu' = [mu EXCEPT !.readers = @ + 1]
    /\ threads' = [threads EXCEPT ![t].pc = IF threads[t].op = "Put" THEN "get" ELSE "read"]
    /\ UNCHANGED <<sstVars, getVars, dec, mem, puts, mres>>

\* m.mu.Lock() in Get: waits while any lock is held
Lock(t) ==
    /\ threads[t].pc = "lock"
    /\ ~TakesRLock(threads[t].op)
    /\ ~mu.writer
    /\ mu.readers = 0
    /\ mu' = [mu EXCEPT !.writer = TRUE]
    /\ threads' = [threads EXCEPT ![t].pc = "read"]
    /\ UNCHANGED <<sstVars, getVars, dec, mem, puts, mres>>

\* Put: existing, ok := m.data.Get(key)
PutGet(t) ==
    /\ threads[t].pc = "get"
    /\ \E existing \in {ImplGet(mem.backend, mem.data, threads[t].key)} :
           threads' = [threads EXCEPT ![t].existing = existing,
                                      ![t].pc = IF existing.ok THEN "subload" ELSE "set"]
    /\ UNCHANGED <<sstVars, getVars, dec, mem, puts, mres, mu>>

\* Put: the load of m.size in m.size -= len(existing) and in m.size += len(value)
PutLoadSize(t) ==
    /\ threads[t].pc \in {"subload", "addload"}
    /\ threads' = [threads EXCEPT ![t].size = mem.size,
                                  ![t].pc = IF threads[t].pc = "subload" THEN "substore"
                                            ELSE "addstore"]
    /\ UNCHANGED <<sstVars, getVars, dec, mem, puts, mres, mu>>

\* Put: the store of m.size -= len(existing)
PutSubStore(t) ==
    /\ threads[t].pc = "substore"
    /\ mem' = [mem EXCEPT !.size = threads[t].size - Len(threads[t].existing.value)]
    /\ threads' = [threads EXCEPT ![t].pc = "set"]
    /\ UNCHANGED <<sstVars, getVars, dec, puts, mres, mu>>

\* Put: m.data.Set(key, value) begins
PutSetBegin(t) ==
    /\ threads[t].pc = "set"
    /\ threads' = [threads EXCEPT ![t].data = mem.data, ![t].pc = "setting"]
    /\ UNCHANGED <<sstVars, getVars, dec, mem, puts, mres, mu>>

\* Put: m.data.Set(key, value) ends
PutSetEnd(t) ==
    /\ threads[t].pc = "setting"
    /\ \E data \in {mem.data, threads[t].data} :
           mem' = [mem EXCEPT !.data = ImplSet(mem.backend, data, threads[t].key, threads[t].value)]
    /\ threads' = [threads EXCEPT ![t].data = <<>>, ![t].pc = "addload"]
    /\ UNCHANGED <<sstVars, getVars, dec, puts, mres, mu>>

\* Put: the store of m.size += len(value)
PutAddStore(t) ==
    /\ threads[t].pc = "addstore"
    /\ mem' = [mem EXCEPT !.size = threads[t].size + Len(threads[t].value)]
    /\ threads' = [threads EXCEPT ![t].pc = "unlock"]
    /\ UNCHANGED <<sstVars, getVars, dec, puts, mres, mu>>

\* the body of Get, Size and Len
Read(t) ==
    /\ threads[t].pc = "read"
    /\ \E found \in {MemTableGet(mem, threads[t].key)} :
           threads' = [threads EXCEPT
               ![t].res = IF threads[t].op = "Get"
                          THEN [NoMemResult EXCEPT !.op = "Get", !.key = threads[t].key,
                                                   !.value = found.value, !.ok = found.ok]
                          ELSE IF threads[t].op = "Size"
                          THEN [NoMemResult EXCEPT !.op = "Size", !.n = MemTableSize(mem)]
                          ELSE [NoMemResult EXCEPT !.op = "Len", !.n = MemTableLen(mem)],
               ![t].pc = "unlock"]
    /\ UNCHANGED <<sstVars, getVars, dec, mem, puts, mres, mu>>

\* the deferred m.mu.RUnlock() or m.mu.Unlock(), and the return
Unlock(t) ==
    /\ threads[t].pc = "unlock"
    /\ mu' = IF TakesRLock(threads[t].op) THEN [mu EXCEPT !.readers = @ - 1]
             ELSE [mu EXCEPT !.writer = FALSE]
    /\ threads' = [threads EXCEPT ![t] = NoThread]
    /\ UNCHANGED <<sstVars, getVars, dec, mem, puts, mres>>

NextMemConc ==
    \/ NewMemTable
    \/ \E t \in Threads :
        \/ Call(t)
        \/ RLock(t)
        \/ Lock(t)
        \/ PutGet(t)
        \/ PutLoadSize(t)
        \/ PutSubStore(t)
        \/ PutSetBegin(t)
        \/ PutSetEnd(t)
        \/ PutAddStore(t)
        \/ Read(t)
        \/ Unlock(t)

SpecMemConc == Init /\ [][NextMemConc]_vars

(***************************************************************************)
(* The Reader's decoding of block payloads that end early: the first       *)
(* bytes of an encoded block, under a metadata header that declares their  *)
(* length and their CRC                                                    *)
(***************************************************************************)
DecKeys == {<<2>>, <<4, 0>>}
DecValues == {<<>>, <<9>>, <<8, 8, 8>>}
DecHandles == {[Offset |-> 0, Size |-> 1], [Offset |-> 27, Size |-> 5]}

\* a data block of entries, cut after n bytes, read by readBlock
DecodeData ==
    /\ dec.kind = "none"
    /\ \E count \in 0..MaxEntries :
       \E keys \in [1..count -> DecKeys], values \in [1..count -> DecValues] :
       \E full \in {BlockEncode([entries |-> [i \in 1..count |-> [Key |-> keys[i], Value |-> values[i]]],
                                 size |-> 0])} :
       \E n \in 0..Len(full) :
       \E payload \in {SubSeq(full, 1, n)} :
       \E block \in {readBlock(EncodeMetadata(DataBlock, calculateCRC(payload), Len(payload), count)
                                   \o payload,
                               [Offset |-> 0, Size |-> Len(payload)])} :
           dec' = [kind |-> "data", full |-> full, payload |-> payload,
                   err |-> block.err, entries |-> block.entries]
    /\ UNCHANGED <<sstVars, getVars, memVars>>

\* an index block of entries, cut after n bytes, read by loadIndexBlock
DecodeIndex ==
    /\ dec.kind = "none"
    /\ \E count \in 0..MaxEntries :
       \E keys \in [1..count -> DecKeys], handles \in [1..count -> DecHandles] :
       \E full \in {IBlockEncode([i \in 1..count |-> [Key |-> keys[i], BlockHandle |-> handles[i]]])} :
       \E n \in 0..Len(full) :
       \E payload \in {SubSeq(full, 1, n)} :
       \E footerData \in {FooterEncode(0, Len(payload), 0)} :
       \E loaded \in {loadIndexBlock(
                          EncodeMetadata(IndexBlock, calculateCRC(payload), Len(payload), count)
                              \o payload \o footerData \o Zeros(FooterSize - Len(footerData)))} :
           dec' = [kind |-> "index", full |-> full, payload |-> payload,
                   err |-> loaded.err, entries |-> loaded.entries]
    /\ UNCHANGED <<sstVars, getVars, memVars>>

NextDecode == DecodeData \/ DecodeIndex

SpecDecode == Init /\ [][NextDecode]_vars

(***************************************************************************)
(* Properties                                                              *)
(***************************************************************************)
\* the file of the Writer, as it is on disk
TheFile == files[w.filename]

Written(key) == \E i \in 1..Len(log) : log[i].key = key

ValueOf(key) == log[CHOOSE i \in 1..Len(log) : log[i].key = key].value

\* position of the data block of a closed Writer that holds (or would hold) key:
\* the number of flushed blocks whose first key is <= key
BlockOf(key) == Cardinality({i \in 1..Len(w.index) : Compare(w.index[i].Key, key) <= 0})

\* walk over the blocks of a file from byte offset pos up to the index block
RECURSIVE Layout(_, _, _)
Layout(f, pos, data) ==
    LET m == ReadMetadata(f, pos)
    IN  IF m.err # NoErr \/ pos + MetadataSize + m.Size > Len(f)
        THEN [ok |-> FALSE, data |-> data, indexPos |-> -1, end |-> -1]
        ELSE IF m.Type = DataBlock
        THEN Layout(f, pos + MetadataSize + m.Size, Append(data, pos))
        ELSE [ok |-> m.Type = IndexBlock, data |-> data, indexPos |-> pos,
              end |-> pos + MetadataSize + m.Size]

\* key + value bytes of the first n entries written
RECURSIVE CumSize(_)
CumSize(n) == IF n = 0 THEN 0 ELSE CumSize(n - 1) + Len(log[n].key) + Len(log[n].value)

GotWritten == got.called /\ Written(got.key)

\* C1: round trip.  After Writes with strictly increasing keys and a Close,
\* NewReader succeeds and Get of every written key returns the value written
\* for it, without an error.
C1_RoundTrip ==
    /\ r.state # "failed"
    /\ GotWritten => got.res = Value(ValueOf(got.key))

\* C2: not found.  Get of a key that was never written returns the
\* key-not-found error: no crash, no other error, no value; also on the empty
\* table and for keys below the first and above the last written key.
C2_NotFound ==
    (got.called /\ ~Written(got.key)) => got.res = Error("key not found")

\* C3: empty values.  When a data block holds an entry with a zero-length
\* value, Get of that entry's key returns the empty value without an error and
\* Get of every other key of the block returns its value, wherever the
\* empty-valued entry sits in the block.
C3_EmptyValues ==
    (/\ GotWritten
     /\ \E i \in 1..Len(log) :
            log[i].value = <<>> /\ BlockOf(log[i].key) = BlockOf(got.key))
    => got.res = Value(ValueOf(got.key))

CrossesMidStream == \E n \in 1..(Len(log) - 1) : CumSize(n) >= BlockSize

\* C4: block boundary.  When the cumulative key+value size crosses BlockSize
\* before the last Write, the closed file has at least 2 data blocks and as
\* many index entries, and Get returns the written value of every key.
C4_BlockBoundary ==
    (w.state = "closed" /\ CrossesMidStream)
    => /\ Len(Layout(TheFile, 0, <<>>).data) >= 2
       /\ Len(w.index) = Len(Layout(TheFile, 0, <<>>).data)
       /\ r.state = "open" => Len(r.indexBlock) = Len(w.index)
       /\ GotWritten => got.res = Value(ValueOf(got.key))

\* the payload bytes of the block whose metadata header is at offset off of
\* the file the Writer wrote, read from file f
PayloadAt(f, off) ==
    SubSeq(f, off + MetadataSize + 1, off + MetadataSize + ReadMetadata(pristine, off).Size)

\* the block selected by the last Get has a payload on disk that differs from
\* the payload written, under an unchanged metadata header
SelectedPayloadDamaged ==
    /\ got.called
    /\ got.sel >= 1
    /\ LET off == r.indexBlock[got.sel].BlockHandle.Offset
       IN  /\ Len(TheFile) = Len(pristine)
           /\ SubSeq(TheFile, off + 1, off + MetadataSize) = SubSeq(pristine, off + 1, off + MetadataSize)
           /\ PayloadAt(TheFile, off) # PayloadAt(pristine, off)

\* C5: CRC detection.  When the payload of the data block that Get selects
\* differs on disk from the bytes written, Get fails with the CRC mismatch
\* error: it returns neither a value nor key-not-found.
C5_CrcDetection ==
    SelectedPayloadDamaged => got.res = Error("block CRC mismatch")

C5_Witness ==
    SelectedPayloadDamaged /\ Written(got.key) /\ got.res = Error("block CRC mismatch")

\* what NewReader requires of a file, stated on its bytes
FileLoads(f, indexBlock) ==
    /\ Len(f) >= FooterSize
    /\ LET footer == SubSeq(f, Len(f) - FooterSize + 1, Len(f))
           off    == DecI64(SubSeq(footer, 1, 8))
       IN  /\ SubSeq(footer, 33, 40) = MagicNumber
           /\ off >= 0
           /\ off + MetadataSize <= Len(f)
           /\ f[off + 1] = IndexBlock
           /\ LET size    == DecLE(SubSeq(f, off + 6, off + 9))
                  payload == SubSeq(f, off + MetadataSize + 1, off + MetadataSize + size)
              IN  /\ off + MetadataSize + size <= Len(f)
                  /\ calculateCRC(payload) = SubSeq(f, off + 2, off + 5)
                  /\ IBlockEncode(indexBlock) = payload

\* C6: NewReader is all or nothing.  A Reader is returned only when the magic
\* number matches, the block at the index handle has type Index, its payload
\* was read in full, its CRC matches and it decodes; otherwise NewReader
\* returns an error and no Reader, and the file it opened is closed.
C6_AllOrNothing ==
    /\ r.state = "open" => (r.err = NoErr /\ r.fileOpen /\ FileLoads(TheFile, r.indexBlock))
    /\ r.state = "failed" => (r.err # NoErr /\ ~r.fileOpen /\ r.indexBlock = <<>>)

C6_Witness ==
    /\ r.state = "failed"
    /\ r.err = "invalid index block type"
    /\ ~r.fileOpen

\* the trailing 64 bytes of the closed file were cut, or one of them changed
FooterDamaged ==
    \/ damage = "truncate"
    \/ /\ damage = "flip"
       /\ \E p \in (Len(pristine) - FooterSize + 1)..Len(pristine) : TheFile[p] # pristine[p]

\* C7 as stated: after the trailing 64 bytes of a closed file were removed or
\* corrupted, NewReader fails with the wrong-magic-number error and has not
\* sought to an index handle.
C7_FooterIntegrity ==
    (FooterDamaged /\ r.state # "none")
    => /\ r.state = "failed"
       /\ r.err = "invalid SSTable file: wrong magic number"
       /\ r.sought = -2

\* C7, amended: after the trailing 64 bytes of a closed file were removed or
\* one of them changed, NewReader fails before any seek to an index handle
\* unless the file has at least 64 bytes and bytes 32..39 of its last 64 bytes
\* are the magic number: with the seek error when the file is shorter than 64
\* bytes, with the wrong-magic-number error otherwise.  When the magic number
\* is there, NewReader seeks to the offset held in the first 8 of those bytes.
C7_FooterChecked ==
    (FooterDamaged /\ r.state # "none")
    => LET f == TheFile
           footer == SubSeq(f, Len(f) - FooterSize + 1, Len(f))
       IN  IF Len(f) < FooterSize
           THEN r.state = "failed" /\ r.err = "seek: invalid argument" /\ r.sought = -2
           ELSE IF SubSeq(footer, 33, 40) # MagicNumber
           THEN /\ r.state = "failed"
                /\ r.err = "invalid SSTable file: wrong magic number"
                /\ r.sought = -2
           ELSE r.sought = DecI64(SubSeq(footer, 1, 8))

\* the footer was cut from a file that keeps 64 bytes or more
C7_Witness ==
    /\ damage = "truncate"
    /\ Len(TheFile) >= FooterSize
    /\ r.state = "failed"
    /\ r.err = "invalid SSTable file: wrong magic number"
    /\ r.sought = -2

\* the index entry with the greatest key <= key, the first entry when there is none
GreatestLE(entries, key) ==
    LET le == {i \in 1..Len(entries) : Compare(entries[i].Key, key) <= 0}
    IN  IF le = {} THEN 1 ELSE CHOOSE i \in le : \A j \in le : j <= i

\* C8: index search policy.  With an index of at least one entry, Get loads
\* the block of the index entry with the greatest first key <= key: the first
\* block when key is below every index key, the last block when key is >= the
\* last index key.
C8_IndexSearch ==
    (got.called /\ Len(r.indexBlock) >= 1)
    => got.sel = GreatestLE(r.indexBlock, got.key)

\* index keys [k1, k3, k5] and a key between k1 and k3: the block of k1
C8_Witness ==
    /\ got.called
    /\ Len(r.indexBlock) = 3
    /\ Compare(r.indexBlock[1].Key, got.key) < 0
    /\ Compare(got.key, r.indexBlock[2].Key) < 0
    /\ got.sel = 1

C10_UniqueFile ==
    /\ \A i, j \in 1..Len(created) : i # j => created[i] # created[j]
    /\ w.state = "closed" => TheFile = pristine

\* C11: concurrent Get calls on one Reader do not corrupt each other.  For
\* every interleaving of the Get calls of several goroutines on one open
\* Reader, each call returns what it returns when it runs alone.
C11_ConcurrentGet ==
    \A g \in Getters :
        calls[g].pc = "done"
        => calls[g].res = ReaderGet(r.indexBlock, TheFile, calls[g].key).res

\* the Put calls made before the last Get, Len or Size call
PutsBefore == SubSeq(puts, 1, mres.after)

\* the position in PutsBefore of the latest Put of key, 0 when there is none
LatestPut(key) ==
    LET at == {i \in 1..Len(PutsBefore) : PutsBefore[i].key = key}
    IN  IF at = {} THEN 0 ELSE CHOOSE i \in at : \A j \in at : j <= i

\* C12: MemTable map semantics.  After any sequence of Put calls, Get(k)
\* returns (v, true) with v the value of the latest Put of k, and (nil, false)
\* for a key never Put; Len() is the number of distinct keys Put; with the
\* skip-list backend and with the red-black-tree backend alike.
C12_MapSemantics ==
    /\ mres.op = "Get" =>
        IF LatestPut(mres.key) = 0
        THEN ~mres.ok /\ mres.value = <<>>
        ELSE mres.ok /\ mres.value = PutsBefore[LatestPut(mres.key)].value
    /\ mres.op = "Len" =>
        mres.n = Cardinality({PutsBefore[i].key : i \in 1..Len(PutsBefore)})

\* a key was Put twice with different values into the red-black tree, and Get
\* returned the later value
C12_Witness ==
    /\ mem.backend = "rbt"
    /\ mres.op = "Get"
    /\ mres.ok
    /\ \E i \in 1..Len(PutsBefore) :
           i < LatestPut(mres.key) /\ PutsBefore[i].key = mres.key
           /\ PutsBefore[i].value # mres.value

\* the goroutine holds the MemTable's lock: it is between its lock and its unlock
InCriticalSection(t) == threads[t].pc \notin {"idle", "lock"}

\* C13: MemTable thread safety.  A Put never executes its critical section at
\* the same time as another Put, a Get, a Size or a Len on the same MemTable.
C13_PutExcludesAll ==
    \A t \in Threads, u \in Threads :
        t # u /\ threads[t].op = "Put" /\ InCriticalSection(t) => ~InCriticalSection(u)

\* the bytes the Writer has emitted: its buffered stream while it is open, its
\* file once it is closed
Emitted == IF w.state = "open" THEN w.bufWriter ELSE IF w.state = "closed" THEN TheFile ELSE <<>>

\* the entries a data block payload holds: [count u32] then per entry
\* [keyLen u32][key][valueLen u32][value], with nothing left over
RECURSIVE ParseEntries(_, _, _, _)
ParseEntries(data, i, todo, acc) ==
    IF todo = 0 THEN [ok |-> i = Len(data), entries |-> acc]
    ELSE IF i + 4 > Len(data) THEN [ok |-> FALSE, entries |-> acc]
    ELSE LET keyLen == DecLE(SubSeq(data, i + 1, i + 4))
             j      == i + 4 + keyLen
         IN  IF j + 4 > Len(data) THEN [ok |-> FALSE, entries |-> acc]
             ELSE LET valueLen == DecLE(SubSeq(data, j + 1, j + 4))
                      k        == j + 4 + valueLen
                  IN  IF k > Len(data) THEN [ok |-> FALSE, entries |-> acc]
                      ELSE ParseEntries(data, k, todo - 1,
                               Append(acc, [Key   |-> SubSeq(data, i + 5, j),
                                            Value |-> SubSeq(data, j + 5, k)]))

ParsePayload(data) ==
    IF Len(data) < 4 THEN [ok |-> FALSE, entries |-> <<>>]
    ELSE ParseEntries(data, 4, DecLE(SubSeq(data, 1, 4)), <<>>)

\* the data blocks of the emitted bytes f from byte offset pos on, up to the
\* end of the bytes or to the index block: the position of each one's metadata
\* header, the header, and the entries of its payload
RECURSIVE DataBlocks(_, _, _)
DataBlocks(f, pos, acc) ==
    IF pos = Len(f) THEN [ok |-> TRUE, blocks |-> acc, end |-> pos]
    ELSE LET m == ReadMetadata(f, pos)
         IN  IF m.err # NoErr \/ pos + MetadataSize + m.Size > Len(f)
             THEN [ok |-> FALSE, blocks |-> acc, end |-> pos]
             ELSE IF m.Type # DataBlock
             THEN [ok |-> m.Type = IndexBlock, blocks |-> acc, end |-> pos]
             ELSE LET parsed == ParsePayload(SubSeq(f, pos + MetadataSize + 1,
                                                    pos + MetadataSize + m.Size))
                  IN  IF ~parsed.ok THEN [ok |-> FALSE, blocks |-> acc, end |-> pos]
                      ELSE DataBlocks(f, pos + MetadataSize + m.Size,
                               Append(acc, [pos |-> pos, metadata |-> m,
                                            entries |-> parsed.entries]))

FlushedBlocks == DataBlocks(Emitted, 0, <<>>)

\* the Writer session follows the Writer's contract and nothing failed
InSession == w.state \in {"open", "closed"}

\* C14: for every index entry the Writer records, the handle's size field
\* equals the byte length of the encoded payload of the data block it points
\* to, the number in the size field of that block's metadata header.
C14_HandleSize ==
    InSession =>
        \A i \in 1..Len(w.index) :
            LET m == ReadMetadata(Emitted, w.index[i].BlockHandle.Offset)
            IN  m.err = NoErr /\ w.index[i].BlockHandle.Size = m.Size

\* C15: index invariant.  At every point of a Writer session and in the
\* closed file the index has exactly one entry per flushed data block, in
\* flush order; the key of entry i is the first and the minimum key of the
\* data block its handle points to, and the keys of adjacent entries increase
\* strictly.
C15_IndexInvariant ==
    InSession =>
        LET fb == FlushedBlocks
        IN  /\ fb.ok
            /\ Len(w.index) = Len(fb.blocks)
            /\ \A i \in 1..Len(w.index) :
                /\ w.index[i].BlockHandle.Offset = fb.blocks[i].pos
                /\ fb.blocks[i].entries # <<>>
                /\ w.index[i].Key = fb.blocks[i].entries[1].Key
                /\ \A e \in 1..Len(fb.blocks[i].entries) :
                       Compare(w.index[i].Key, fb.blocks[i].entries[e].Key) <= 0
            /\ \A i \in 1..(Len(w.index) - 1) : Compare(w.index[i].Key, w.index[i + 1].Key) < 0

\* two blocks were flushed, one of them with several entries
C15_Witness ==
    /\ InSession
    /\ Len(w.index) >= 2
    /\ \E i \in 1..Len(FlushedBlocks.blocks) : Len(FlushedBlocks.blocks[i].entries) >= 2

\* metadata header and payload bytes of the first n flushed data blocks
RECURSIVE BlockBytes(_, _)
BlockBytes(blocks, n) ==
    IF n = 0 THEN 0 ELSE BlockBytes(blocks, n - 1) + MetadataSize + blocks[n].metadata.Size

\* C16: offset bookkeeping.  The running offset is the number of bytes emitted
\* for the blocks written so far: the flushed data blocks while the session is
\* open, these and the index block after Close, whose footer points at the
\* end of the data blocks.  Each handle's offset is the position of its block's
\* metadata header: 0 for the first block, and offset[i+1] = offset[i] +
\* size_of(BlockMetadata) + len(payload[i]).
C16_OffsetBookkeeping ==
    InSession =>
        LET fb == FlushedBlocks
            n  == Len(fb.blocks)
        IN  /\ fb.ok
            /\ Len(w.index) = n
            /\ w.state = "open" => w.offset = Len(Emitted) /\ w.offset = BlockBytes(fb.blocks, n)
            /\ w.state = "closed" =>
                /\ fb.end = BlockBytes(fb.blocks, n)
                /\ DecI64(SubSeq(Emitted, Len(Emitted) - FooterSize + 1,
                                 Len(Emitted) - FooterSize + 8)) = BlockBytes(fb.blocks, n)
                /\ w.offset = fb.end + MetadataSize + ReadMetadata(Emitted, fb.end).Size
                /\ w.offset + FooterSize = Len(Emitted)
            /\ n >= 1 => w.index[1].BlockHandle.Offset = 0
            /\ \A i \in 1..n : w.index[i].BlockHandle.Offset = fb.blocks[i].pos
            /\ \A i \in 1..(n - 1) :
                   w.index[i + 1].BlockHandle.Offset
                       = w.index[i].BlockHandle.Offset + MetadataSize + fb.blocks[i].metadata.Size

\* a session in which a second block was flushed while the Writer stays open
C16_Witness ==
    /\ w.state = "open"
    /\ Len(w.index) >= 2
    /\ w.index[2].BlockHandle.Offset > MetadataSize
    /\ w.offset > w.index[2].BlockHandle.Offset

\* key + value bytes of the entries es
RECURSIVE EntriesSize(_)
EntriesSize(es) ==
    IF es = <<>> THEN 0 ELSE Len(Head(es).Key) + Len(Head(es).Value) + EntriesSize(Tail(es))

\* a data block that was flushed because it was full
FlushedWhenFull(es) ==
    /\ EntriesSize(es) >= BlockSize
    /\ EntriesSize(SubSeq(es, 1, Len(es) - 1)) < BlockSize

\* C17: soft-threshold flush protocol.  Write flushes the current block before
\* appending if and only if the block's accumulated key+value size is >=
\* BlockSize at the time of the call, and then appends the entry to the
\* (possibly new) current block.  After every Write the current block holds
\* the entry just written; no empty data block is written; every data block
\* except possibly the last one of the file has accumulated size >= BlockSize
\* and that size minus its last entry's size is < BlockSize.
C17_SoftThreshold ==
    [][/\ Len(log') = Len(log) + 1 =>
            LET flushed == Len(w'.index) = Len(w.index) + 1
                entry   == [Key |-> log'[Len(log')].key, Value |-> log'[Len(log')].value]
            IN  /\ flushed <=> w.block.size >= BlockSize
                /\ ~flushed => w'.index = w.index
                /\ w'.block.entries = (IF flushed THEN <<>> ELSE w.block.entries) \o <<entry>>
                /\ w'.block.size = EntriesSize(w'.block.entries)
       /\ (w'.state \in {"open", "closed"}) =>
            LET fb == DataBlocks(IF w'.state = "open" THEN w'.bufWriter ELSE files'[w'.filename],
                                 0, <<>>)
                n  == Len(fb.blocks)
            IN  /\ fb.ok
                /\ \A i \in 1..n : fb.blocks[i].entries # <<>>
                /\ \A i \in 1..(IF w'.state = "open" THEN n ELSE n - 1) :
                       FlushedWhenFull(fb.blocks[i].entries)
      ]_vars

\* Write flushed a block of exactly BlockSize bytes and one that an oversized
\* last entry pushed past the threshold
C17_Witness ==
    /\ w.state = "open"
    /\ w.block.entries # <<>>
    /\ \E i \in 1..Len(FlushedBlocks.blocks) :
           EntriesSize(FlushedBlocks.blocks[i].entries) = BlockSize
    /\ \E i \in 1..Len(FlushedBlocks.blocks) :
           EntriesSize(FlushedBlocks.blocks[i].entries) > BlockSize

\* the entries of the first n blocks, one after the other
RECURSIVE Flatten(_, _)
Flatten(blocks, n) ==
    IF n = 0 THEN <<>> ELSE Flatten(blocks, n - 1) \o blocks[n].entries

\* the pairs passed to Write, as entries
LogEntries == [i \in 1..Len(log) |-> [Key |-> log[i].key, Value |-> log[i].value]]

\* C18: no entry is lost, duplicated or reordered by the Writer.  At every
\* point of a session the entries of the flushed data blocks in flush order
\* followed by the entries of the current block are the pairs passed to
\* Write, in call order; after Close every written entry is serialized in
\* exactly one data block and the current block is empty.
C18_NoEntryLost ==
    InSession =>
        LET fb == FlushedBlocks
        IN  /\ fb.ok
            /\ Flatten(fb.blocks, Len(fb.blocks)) \o w.block.entries = LogEntries
            /\ \A i \in 1..Len(fb.blocks) :
                   fb.blocks[i].metadata.KeyCount = Len(fb.blocks[i].entries)
            /\ w.state = "closed" =>
                /\ w.block.entries = <<>>
                /\ Flatten(fb.blocks, Len(fb.blocks)) = LogEntries
                /\ Len(fb.blocks) = Len(w.index)

\* three entries went to two blocks, one flushed by Write and one by Close
C18_Witness ==
    /\ w.state = "closed"
    /\ Len(log) = 3
    /\ Len(FlushedBlocks.blocks) = 2

\* C19: decoding fails fast on a short buffer.  When a block payload (data
\* block or index block) passes its CRC check but is shorter than its
\* declared fields demand, the Reader's decode returns an error; it yields no
\* entry whose key or value was only partly filled from the buffer.
C19_DecodeFailsFast ==
    dec.kind # "none" /\ Len(dec.payload) < Len(dec.full) => dec.err # NoErr

\* a call of Write or Close returned the error of its flush
FlushFailed == w.state = "open" /\ w'.state = "open" /\ w'.err /\ log' = log /\ w' # w

\* C20: a failed flush records nothing.  When writing a data block's metadata
\* or payload fails inside flushBlock, the Writer's state is as before the
\* flush: the index block has no entry for the block that was not written,
\* the running offset is not advanced and the current block is retained; at
\* all times every index entry refers to a block whose bytes were handed to
\* the file writer.
C20_FailedFlush ==
    [][/\ FlushFailed =>
            /\ w'.index = w.index
            /\ w'.offset = w.offset
            /\ w'.block = w.block
       /\ w'.state = "open" =>
            LET fb == DataBlocks(w'.bufWriter, 0, <<>>)
            IN  \A i \in 1..Len(w'.index) :
                    /\ i <= Len(fb.blocks)
                    /\ w'.index[i].BlockHandle.Offset = fb.blocks[i].pos
      ]_vars

\* the byte lengths of the values the MemTable holds for the keys ks, summed
RECURSIVE StoredBytes(_)
StoredBytes(ks) ==
    IF ks = {} THEN 0
    ELSE LET k     == CHOOSE x \in ks : TRUE
             found == ImplGet(mem.backend, mem.data, k)
         IN  (IF found.ok THEN Len(found.value) ELSE 0) + StoredBytes(ks \ {k})

\* every Put call that was made has returned
PutsCompleted == mem.backend # "none" /\ \A t \in Threads : threads[t].pc = "idle"

\* C21: MemTable size accounting.  After any set of completed Put calls,
\* including Puts of concurrent goroutines and Puts that overwrite a key,
\* Size() is the sum of the byte lengths of the current value of each distinct
\* key (key bytes are not counted), and Size() is never negative.
C21_SizeAccounting ==
    /\ PutsCompleted => MemTableSize(mem) = StoredBytes(MemKeys \cup ConcKeys)
    /\ MemTableSize(mem) >= 0
====
